---- MODULE Spec2Model ----
(***************************************************************************)
(* The "Do Meows" main screen (app/(tabs)/index.tsx as listed in           *)
(* 03-your-project-explained.md): the task list with its three handlers    *)
(* and the feedback overlay with its expiry timer.                         *)
(*                                                                         *)
(* One action of the model is one callback of the single-threaded event    *)
(* loop: a press handler together with the state updaters React runs for   *)
(* it before the next callback, a change of the text field, a passage of   *)
(* time, or the firing of a setTimeout callback.                           *)
(*                                                                         *)
(* The other programs of the repository have a specification each, with    *)
(* the main screen at rest: the script of the web pages (script.js,        *)
(* PageSpec), the DebouncedSearch component (SearchSpec) and the HomeScreen *)
(* with persistence (PersistSpec).                                         *)
(***************************************************************************)
EXTENDS Integers, Sequences, FiniteSets, TLC

\* ---------------------------------------------------------------- bounds
MaxTasks == 2       \* longest task list
MaxIds == 3         \* ids nanoid issues in one run
MaxTimers == 4      \* setTimeout calls in one run
TickMs == 1750      \* granularity of the passage of time
MaxSearchTimers == 4  \* setTimeout calls of DebouncedSearch in one run
SearchTickMs == 150   \* granularity of the passage of time for DebouncedSearch
MaxSaves == 4         \* AsyncStorage.setItem calls in one run

\* ------------------------------------------------------ program constants
FEEDBACK_DURATION_MS == 3500
SCROLL_THRESHOLD == 300     \* script.js: window.scrollY > 300
DEBOUNCE_MS == 300          \* DebouncedSearch: setTimeout(..., 300)

Null == "null"
FeedbackType == {"completed", "deleted", "added", "uncompleted"}

\* A text is a sequence of characters.
Whitespace == {" ", "\t"}

\* Texts typed into the input field: empty, whitespace only, and padded
\* with whitespace around a text with whitespace inside.
Texts ==
  { <<>>,
    <<" ", "\t">>,
    <<" ", "a", " ", "b", "\t">> }

\* Ids a caller may pass to a handler: every id nanoid can issue.
Ids == 1..MaxIds

VARIABLES
  tasks,               \* useState<TaskType[]>([])
  inputText,           \* useState('')
  feedbackType,        \* useState<FeedbackType | null>(null)
  feedbackImageError,  \* useState(false)
  feedbackTimeoutRef,  \* useRef(null): handle of the last setTimeout, 0 for null
  timers,              \* the runtime's timers, indexed by handle
  nanoidCount,         \* ids nanoid has issued
  mounted,             \* the screen component is mounted
  sinceTrigger,        \* time since the last showFeedback call (saturating)
  expiries,            \* expiry callbacks run since the last showFeedback call
  lastOp,              \* the last handler call: its arguments, signal and pre-state
  prevOp,              \* the handler call before lastOp
  page,                \* script.js: the document and localStorage of the site
  search,              \* the DebouncedSearch component and its timers
  persist              \* the HomeScreen with persistence and its storage

\* The main screen.
mainVars == <<tasks, inputText, feedbackType, feedbackImageError, feedbackTimeoutRef,
              timers, nanoidCount, mounted, sinceTrigger, expiries, lastOp, prevOp>>

\* The other programs of the repository; the main screen leaves them alone.
exampleVars == <<page, search, persist>>

vars == <<mainVars, exampleVars>>

\* ------------------------------------------------------------ the runtime

Min(a, b) == IF a < b THEN a ELSE b
Max(a, b) == IF a > b THEN a ELSE b

\* setTimeout(cb, delay): a new pending timer; its handle is its index.
SetTimeout(tab, delay) ==
  Append(tab, [state |-> "pending", remaining |-> delay])

\* clearTimeout(h): cancels a pending timer, nothing for any other handle.
ClearTimeout(tab, h) ==
  IF h \in DOMAIN tab /\ tab[h].state = "pending"
  THEN [tab EXCEPT ![h] = [state |-> "cleared", remaining |-> 0]]
  ELSE tab

\* String.prototype.trim
RECURSIVE TrimStart(_)
TrimStart(t) ==
  IF t # <<>> /\ Head(t) \in Whitespace THEN TrimStart(Tail(t)) ELSE t

RECURSIVE TrimEnd(_)
TrimEnd(t) ==
  IF t # <<>> /\ t[Len(t)] \in Whitespace
  THEN TrimEnd(SubSeq(t, 1, Len(t) - 1))
  ELSE t

Trim(t) == TrimEnd(TrimStart(t))

IsEmptyInputNoTrim(text) == text = <<>>

\* if (!inputText.trim()) return;
IsEmptyInput(text) == Trim(text) = <<>>

NanoidRepeats(count) == 1

\* nanoid(): an id no earlier call returned.
Nanoid(count) == count + 1

\* ------------------------------------------------------ the feedback system

FeedbackState ==
  [type |-> feedbackType, err |-> feedbackImageError,
   ref |-> feedbackTimeoutRef, timers |-> timers]

\* Variants of showFeedback with a slip in them.
ShowFeedbackRefNotStored(fb, type) ==
  LET cleared == IF fb.ref # 0 THEN ClearTimeout(fb.timers, fb.ref) ELSE fb.timers
  IN  [type   |-> type,
       err    |-> FALSE,
       ref    |-> fb.ref,
       timers |-> SetTimeout(cleared, FEEDBACK_DURATION_MS)]

ShowFeedbackNoClear(fb, type) ==
  [type   |-> type,
   err    |-> FALSE,
   ref    |-> Len(fb.timers) + 1,
   timers |-> SetTimeout(fb.timers, FEEDBACK_DURATION_MS)]

ShowFeedbackSameKindKeepsTimer(fb, type) ==
  IF fb.type = type
  THEN [fb EXCEPT !.err = FALSE]
  ELSE LET cleared == IF fb.ref # 0 THEN ClearTimeout(fb.timers, fb.ref)
                      ELSE fb.timers
       IN  [type   |-> type,
            err    |-> FALSE,
            ref    |-> Len(cleared) + 1,
            timers |-> SetTimeout(cleared, FEEDBACK_DURATION_MS)]

ShowFeedbackKeepsShowing(fb, type) ==
  LET cleared == IF fb.ref # 0 THEN ClearTimeout(fb.timers, fb.ref) ELSE fb.timers
  IN  [type   |-> IF fb.type # Null THEN fb.type ELSE type,
       err    |-> FALSE,
       ref    |-> Len(cleared) + 1,
       timers |-> SetTimeout(cleared, FEEDBACK_DURATION_MS)]

ShowFeedbackKeepsError(fb, type) ==
  LET cleared == IF fb.ref # 0 THEN ClearTimeout(fb.timers, fb.ref) ELSE fb.timers
  IN  [type   |-> type,
       err    |-> fb.err,
       ref    |-> Len(cleared) + 1,
       timers |-> SetTimeout(cleared, FEEDBACK_DURATION_MS)]

ShowFeedbackReusesWindow(fb, type) ==
  LET cleared == IF fb.ref # 0 THEN ClearTimeout(fb.timers, fb.ref) ELSE fb.timers
      delay   == IF fb.ref # 0 /\ fb.timers[fb.ref].state = "fired"
                 THEN fb.timers[fb.ref].remaining
                 ELSE FEEDBACK_DURATION_MS
  IN  [type   |-> type,
       err    |-> FALSE,
       ref    |-> Len(cleared) + 1,
       timers |-> SetTimeout(cleared, delay)]

ShowFeedback(fb, type) ==
  LET cleared == IF fb.ref # 0 THEN ClearTimeout(fb.timers, fb.ref) ELSE fb.timers
  IN  [type   |-> type,
       err    |-> FALSE,
       ref    |-> Len(cleared) + 1,
       timers |-> SetTimeout(cleared, FEEDBACK_DURATION_MS)]

ExpiryCallbackKeepsType(fb) == [fb EXCEPT !.err = FALSE]

\* The callback given to setTimeout in showFeedback.
ExpiryCallback(fb) == [fb EXCEPT !.type = Null, !.err = FALSE]

\* ------------------------------------------------------------ task updaters

AddUpdaterPrepends(prev, id, text) ==
  <<[id |-> id, text |-> Trim(text), completed |-> FALSE]>> \o prev

AddUpdaterRawText(prev, id, text) ==
  Append(prev, [id |-> id, text |-> text, completed |-> FALSE])

AddUpdater(prev, id, text) ==
  Append(prev, [id |-> id, text |-> Trim(text), completed |-> FALSE])

ToggleUpdaterMarksComplete(prev, id) ==
  [i \in DOMAIN prev |->
     IF prev[i].id = id THEN [prev[i] EXCEPT !.completed = TRUE] ELSE prev[i]]

ToggleUpdaterDropsText(prev, id) ==
  [i \in DOMAIN prev |->
     IF prev[i].id = id
     THEN [id |-> prev[i].id, text |-> <<>>, completed |-> ~prev[i].completed]
     ELSE prev[i]]

ToggleUpdater(prev, id) ==
  [i \in DOMAIN prev |->
     IF prev[i].id = id
     THEN [prev[i] EXCEPT !.completed = ~prev[i].completed]
     ELSE prev[i]]

\* next.find((t) => t.id === id): index of the first match, 0 for undefined.
Find(list, id) ==
  IF \E i \in DOMAIN list : list[i].id = id
  THEN CHOOSE i \in DOMAIN list :
         /\ list[i].id = id
         /\ \A j \in DOMAIN list : list[j].id = id => i <= j
  ELSE 0

ToggleFeedbackSwapped(next, id) ==
  LET i == Find(next, id)
  IN  IF i # 0 /\ next[i].completed THEN "uncompleted" ELSE "completed"

ToggleFeedback(next, id) ==
  LET i == Find(next, id)
  IN  IF i # 0 /\ next[i].completed THEN "completed" ELSE "uncompleted"

RECURSIVE Filter(_, _)
Filter(list, id) ==
  IF list = <<>> THEN <<>>
  ELSE IF Head(list).id # id
       THEN <<Head(list)>> \o Filter(Tail(list), id)
       ELSE Filter(Tail(list), id)

\* Variants of the delete updater with a slip in them: the filter test
\* inverted, and removal by index with the index of a missing id taken as
\* the last position.
DeleteUpdaterKeepsMatch(prev, id) ==
  SelectSeq(prev, LAMBDA t : t.id = id)

DeleteUpdaterSpliceIndex(prev, id) ==
  LET i == IF Find(prev, id) # 0 THEN Find(prev, id) ELSE Len(prev)
  IN  IF prev = <<>> THEN prev
      ELSE SubSeq(prev, 1, i - 1) \o SubSeq(prev, i + 1, Len(prev))

DeleteUpdater(prev, id) == Filter(prev, id)

\* ------------------------------------------------- script.js: the web page

\* querySelector found no element.
Absent == "absent"

\* The text of the theme button: the moon, the sun, or what the markup of
\* the page gives it before the script sets it.
Moon == "moon"
Sun == "sun"
Markup == "markup"

\* What localStorage may hold under 'theme' when a page is opened: nothing,
\* the empty string, the two themes, and a value that is neither.
SavedThemes == {Null, "", "light", "dark", "auto"}

\* Scroll positions: the top, the threshold and just beyond it.
ScrollPositions == {0, SCROLL_THRESHOLD, SCROLL_THRESHOLD + 1}

LoadThemeNoDefault(saved) == saved

\* localStorage.getItem('theme') || 'dark': null and '' are falsy.
LoadTheme(saved) == IF saved = Null \/ saved = "" THEN "dark" ELSE saved

NewThemeAlwaysLight(current) == "light"

NewThemeKeepsUnknown(current) ==
  IF current = "light" THEN "dark"
  ELSE IF current = "dark" THEN "light" ELSE current

\* currentTheme === 'light' ? 'dark' : 'light'
NewTheme(current) == IF current = "light" THEN "dark" ELSE "light"

ThemeIconSwapped(theme) == IF theme = "light" THEN Sun ELSE Moon

\* theme === 'light' ? moon : sun
ThemeIcon(theme) == IF theme = "light" THEN Moon ELSE Sun

\* The class of the scroll-to-top button after a scroll event.
ScrollClass(y) == IF y > SCROLL_THRESHOLD THEN "visible" ELSE "plain"

\* The theme as the page shows and stores it.
ThemeState(pg) == [theme |-> pg.theme, stored |-> pg.stored, toggle |-> pg.toggle]

\* The last two elements of a sequence.
LastTwo(seq) == IF Len(seq) > 2 THEN SubSeq(seq, Len(seq) - 1, Len(seq)) ELSE seq

\* No page is open: theme is the data-theme attribute, stored the value of
\* localStorage under 'theme', toggle the text of .theme-toggle, scrollBtn
\* the class of .scroll-to-top, hist the theme states before the last two
\* toggleTheme calls since the load, call the last function that ran.
PageOff ==
  [loaded |-> FALSE, theme |-> Null, stored |-> Null, toggle |-> Absent,
   scrollBtn |-> Absent, scrollY |-> 0, hist |-> <<>>, call |-> "none"]

\* ----------------------------------------------- DebouncedSearch: operators

\* What is typed into the search field, one key at a time or pasted.
SearchTexts == {"", "c", "ca", "cat"}

\* clearTimeout for the timers of DebouncedSearch, which carry the value
\* of search their callback closes over.
ClearSearchTimer(tab, h) ==
  IF h \in DOMAIN tab /\ tab[h].state = "pending"
  THEN [tab EXCEPT ![h].state = "cleared", ![h].remaining = 0]
  ELSE tab

\* The cleanup of the first effect: clearTimeout(timer).
SearchCleanup(s) ==
  [s EXCEPT !.timers = ClearSearchTimer(s.timers, s.timer)]

SearchEffectNoCleanup(s) ==
  [s EXCEPT
     !.timers = Append(s.timers, [state |-> "pending", remaining |-> DEBOUNCE_MS,
                                  value |-> s.search]),
     !.timer = Len(s.timers) + 1]

\* The first effect after a render with a new value of search: the cleanup
\* of the run before it, then setTimeout with the new value.
SearchEffect(s) ==
  LET c == SearchCleanup(s)
  IN  [c EXCEPT
         !.timers = Append(c.timers, [state |-> "pending", remaining |-> DEBOUNCE_MS,
                                      value |-> c.search]),
         !.timer = Len(c.timers) + 1]

\* The second effect after a render with a new value of debouncedSearch:
\* the value it logs (the API call), if any.
SearchQuery(s, value) ==
  IF value # s.debouncedSearch /\ value # "" THEN value ELSE s.lastQuery

\* ------------------------------------- HomeScreen with persistence: operators

\* A value of AsyncStorage under STORAGE_KEY: nothing (getItem gives null),
\* a string that is no JSON, or the JSON text of a task list.
NoItem == [kind |-> "null", json |-> <<>>]
Corrupt == [kind |-> "corrupt", json |-> <<>>]

\* JSON.stringify(tasks)
Stringify(list) == [kind |-> "json", json |-> list]

\* JSON.parse(saved) for the JSON text of a task list (it throws for a
\* string that is no JSON).
Parse(str) == str.json

\* The one task an earlier session may have saved.
SavedTask == [id |-> 1, text |-> <<"a", " ", "b">>, completed |-> TRUE]

\* What storage may hold when the app starts.
SavedItems == {NoItem, Corrupt, Stringify(<<>>), Stringify(<<SavedTask>>)}

\* How a getItem call may end.
GetOutcomes == {"resolve", "reject"}

SaveEffectNoGuard(p) ==
  [p EXCEPT !.queue = Append(@, [op |-> "set", value |-> Stringify(p.tasks)]),
            !.saves = @ + 1]

\* The second effect, run after a render in which tasks or isLoading
\* changed: setItem is called and not awaited.
SaveEffect(p) ==
  IF ~p.isLoading
  THEN [p EXCEPT !.queue = Append(@, [op |-> "set", value |-> Stringify(p.tasks)]),
                 !.saves = @ + 1]
  ELSE p

\* The first effect, run once after the first render: loadTasks() up to
\* its await, with getItem called.
LoadEffect(p) ==
  [p EXCEPT !.queue = Append(@, [op |-> "get", value |-> NoItem])]

\* loadTasks() after its await: try, catch and finally, the render of the
\* two state changes and the second effect.
LoadTasksDone(p, outcome, saved) ==
  LET parsed == IF outcome = "resolve" /\ saved.kind = "json"
                THEN Parse(saved) ELSE p.tasks
  IN  SaveEffect([p EXCEPT !.tasks = parsed, !.isLoading = FALSE])

\* ----------------------------------------------- the example components

SearchOff == "off"
PersistOff == "off"

\* ------------------------------------------------------------------- Init

NoOp == [op |-> "none", arg |-> 0, kind |-> Null, trigger |-> Null, pre |-> <<>>]

MainInit ==
  /\ tasks = <<>>
  /\ inputText = <<>>
  /\ feedbackType = Null
  /\ feedbackImageError = FALSE
  /\ feedbackTimeoutRef = 0
  /\ timers = <<>>
  /\ nanoidCount = 0
  /\ mounted = TRUE
  /\ sinceTrigger = FEEDBACK_DURATION_MS
  /\ expiries = 0
  /\ lastOp = NoOp
  /\ prevOp = NoOp

\* The main screen alone: the other programs are not running.
Init ==
  /\ MainInit
  /\ page = PageOff
  /\ search = SearchOff
  /\ persist = PersistOff

\* ---------------------------------------------------------------- actions

\* The feedback variables take the values of the record fb.
SetFeedback(fb) ==
  /\ feedbackType' = fb.type
  /\ feedbackImageError' = fb.err
  /\ feedbackTimeoutRef' = fb.ref
  /\ timers' = fb.timers

\* The log of handler calls: op and arg are the call, kind the feedback it
\* signalled (Null for none), trigger the kind of the most recent
\* showFeedback call so far, pre the task list the call found.
Record(op, arg, kind) ==
  /\ lastOp' = [op |-> op, arg |-> arg, kind |-> kind,
                trigger |-> IF kind # Null THEN kind ELSE lastOp.trigger,
                pre |-> tasks]
  /\ prevOp' = lastOp

\* onChangeText={setInputText}
SetInputText(text) ==
  /\ UNCHANGED exampleVars
  /\ mounted
  /\ inputText' = text
  /\ UNCHANGED <<tasks, feedbackType, feedbackImageError, feedbackTimeoutRef,
                 timers, nanoidCount, mounted, sinceTrigger,
                 expiries, lastOp, prevOp>>

\* A variant of handleAddTask without the reset of the input field.
HandleAddTaskKeepsInput ==
  /\ UNCHANGED exampleVars
  /\ mounted
  /\ IF IsEmptyInput(inputText)
     THEN /\ Record("add", inputText, Null)
          /\ UNCHANGED <<tasks, inputText, feedbackType, feedbackImageError,
                         feedbackTimeoutRef, timers, nanoidCount, mounted,
                         sinceTrigger, expiries>>
     ELSE /\ Len(tasks) < MaxTasks
          /\ Len(timers) < MaxTimers
          /\ nanoidCount < MaxIds
          /\ tasks' = AddUpdater(tasks, Nanoid(nanoidCount), inputText)
          /\ nanoidCount' = nanoidCount + 1
          /\ SetFeedback(ShowFeedback(FeedbackState, "added"))
          /\ sinceTrigger' = 0
          /\ expiries' = 0
          /\ Record("add", inputText, "added")
          /\ UNCHANGED <<inputText, mounted>>

\* onPress={handleAddTask}: the guard, then the updater of setTasks, the
\* reset of the input and showFeedback('added').
HandleAddTask ==
  /\ UNCHANGED exampleVars
  /\ mounted
  /\ IF IsEmptyInput(inputText)
     THEN /\ Record("add", inputText, Null)
          /\ UNCHANGED <<tasks, inputText, feedbackType, feedbackImageError,
                         feedbackTimeoutRef, timers, nanoidCount, mounted,
                         sinceTrigger, expiries>>
     ELSE /\ Len(tasks) < MaxTasks
          /\ Len(timers) < MaxTimers
          /\ nanoidCount < MaxIds
          /\ tasks' = AddUpdater(tasks, Nanoid(nanoidCount), inputText)
          /\ nanoidCount' = nanoidCount + 1
          /\ inputText' = <<>>
          /\ SetFeedback(ShowFeedback(FeedbackState, "added"))
          /\ sinceTrigger' = 0
          /\ expiries' = 0
          /\ Record("add", inputText, "added")
          /\ UNCHANGED mounted

\* handleToggleComplete(id): the updater computes next from prev and calls
\* showFeedback itself, with the kind read from the task found in next.
\* React runs the updater of a press before the next callback of the event
\* loop, so the handler and its updater are one step.
HandleToggleComplete(id) ==
  /\ UNCHANGED exampleVars
  /\ mounted
  /\ Len(timers) < MaxTimers
  /\ LET next == ToggleUpdater(tasks, id)
         kind == ToggleFeedback(next, id)
     IN  /\ tasks' = next
         /\ SetFeedback(ShowFeedback(FeedbackState, kind))
         /\ Record("toggle", id, kind)
  /\ sinceTrigger' = 0
  /\ expiries' = 0
  /\ UNCHANGED <<inputText, nanoidCount, mounted>>

\* handleToggleComplete(id) when React invokes the updater twice with the
\* same prev (as it does for updater functions in development): both
\* invocations compute the same next and each calls showFeedback; the list
\* becomes the result of the updater.
HandleToggleCompleteTwice(id) ==
  /\ UNCHANGED exampleVars
  /\ mounted
  /\ Len(timers) + 1 < MaxTimers
  /\ LET next == ToggleUpdater(tasks, id)
         kind == ToggleFeedback(next, id)
     IN  /\ tasks' = next
         /\ SetFeedback(ShowFeedback(ShowFeedback(FeedbackState, kind), kind))
         /\ Record("toggle", id, kind)
  /\ sinceTrigger' = 0
  /\ expiries' = 0
  /\ UNCHANGED <<inputText, nanoidCount, mounted>>

\* handleDelete(id): the filter, and showFeedback('deleted') whether or not
\* a task had the id.
HandleDelete(id) ==
  /\ UNCHANGED exampleVars
  /\ mounted
  /\ Len(timers) < MaxTimers
  /\ tasks' = DeleteUpdater(tasks, id)
  /\ SetFeedback(ShowFeedback(FeedbackState, "deleted"))
  /\ Record("delete", id, "deleted")
  /\ sinceTrigger' = 0
  /\ expiries' = 0
  /\ UNCHANGED <<inputText, nanoidCount, mounted>>

\* Time passes: every pending timer comes d closer to being due. A due timer
\* need not run at once (setTimeout gives a least delay), so time may pass
\* over it while another timer is still counting.
Advance(d) ==
  /\ UNCHANGED exampleVars
  /\ \E h \in DOMAIN timers : timers[h].state = "pending" /\ timers[h].remaining > 0
  /\ timers' = [h \in DOMAIN timers |->
                  IF timers[h].state = "pending"
                  THEN [timers[h] EXCEPT !.remaining = Max(0, @ - d)]
                  ELSE timers[h]]
  /\ sinceTrigger' = Min(FEEDBACK_DURATION_MS, sinceTrigger + d)
  /\ UNCHANGED <<tasks, inputText, feedbackType, feedbackImageError,
                 feedbackTimeoutRef, nanoidCount, mounted, expiries, lastOp, prevOp>>

\* A variant of the run of a due timer that also empties the input field.
TimerFireClearsInput(h) ==
  /\ UNCHANGED exampleVars
  /\ h \in DOMAIN timers
  /\ timers[h].state = "pending"
  /\ timers[h].remaining = 0
  /\ expiries' = expiries + 1
  /\ LET ran == [timers EXCEPT ![h].state = "fired"]
         fb  == ExpiryCallback([FeedbackState EXCEPT !.timers = ran])
     IN  IF mounted
         THEN SetFeedback(fb)
         ELSE /\ timers' = ran
              /\ UNCHANGED <<feedbackType, feedbackImageError, feedbackTimeoutRef>>
  /\ inputText' = <<>>
  /\ UNCHANGED <<tasks, nanoidCount, mounted, sinceTrigger, lastOp, prevOp>>

\* The runtime runs the callback of a due timer; the state setters of an
\* unmounted component do nothing.
TimerFire(h) ==
  /\ UNCHANGED exampleVars
  /\ h \in DOMAIN timers
  /\ timers[h].state = "pending"
  /\ timers[h].remaining = 0
  /\ expiries' = expiries + 1
  /\ LET ran == [timers EXCEPT ![h].state = "fired"]
         fb  == ExpiryCallback([FeedbackState EXCEPT !.timers = ran])
     IN  IF mounted
         THEN SetFeedback(fb)
         ELSE /\ timers' = ran
              /\ UNCHANGED <<feedbackType, feedbackImageError, feedbackTimeoutRef>>
  /\ UNCHANGED <<tasks, inputText, nanoidCount, mounted, sinceTrigger, lastOp, prevOp>>

\* The Image of the overlay reports that the GIF failed to load.
OnImageError ==
  /\ UNCHANGED exampleVars
  /\ mounted
  /\ feedbackType # Null
  /\ feedbackImageError' = TRUE
  /\ UNCHANGED <<tasks, inputText, feedbackType, feedbackTimeoutRef, timers,
                 nanoidCount, mounted, sinceTrigger, expiries, lastOp, prevOp>>

\* The screen is unmounted. The component registers no cleanup (it has no
\* effect), so the runtime's timers stay as they are; the component's state
\* and ref are gone, which the model writes as their initial values.
Unmount ==
  /\ UNCHANGED exampleVars
  /\ mounted
  /\ mounted' = FALSE
  /\ tasks' = <<>>
  /\ inputText' = <<>>
  /\ feedbackType' = Null
  /\ feedbackImageError' = FALSE
  /\ feedbackTimeoutRef' = 0
  /\ lastOp' = NoOp
  /\ prevOp' = NoOp
  /\ UNCHANGED <<timers, nanoidCount, sinceTrigger, expiries>>

Next ==
  \/ \E text \in Texts : SetInputText(text)
  \/ HandleAddTask
  \/ \E id \in Ids : HandleToggleComplete(id)
  \/ \E id \in Ids : HandleDelete(id)
  \/ Advance(TickMs)
  \/ \E h \in 1..MaxTimers : TimerFire(h)
  \/ OnImageError
  \/ Unmount

Spec == Init /\ [][Next]_vars

\* The runtime's clock goes on while a timer is counting, and a due timer's
\* callback is run.
FairSpec ==
  /\ Init
  /\ [][Next]_vars
  /\ WF_vars(Advance(TickMs))
  /\ WF_vars(\E h \in 1..MaxTimers : TimerFire(h))

\* The screen with a runtime that may invoke the toggle updater twice.
StrictNext ==
  \/ Next
  \/ \E id \in Ids : HandleToggleCompleteTwice(id)

StrictSpec == Init /\ [][StrictNext]_vars

\* ----------------------------------------------------- script.js: actions

\* A page of the site is about to be opened: something or nothing is saved
\* under 'theme', and the page has or has not each of the two buttons.
PageInit ==
  /\ MainInit
  /\ search = SearchOff
  /\ persist = PersistOff
  /\ \E saved \in SavedThemes, tg \in {Absent, Markup}, sb \in {Absent, "plain"} :
       page = [PageOff EXCEPT !.stored = saved, !.toggle = tg, !.scrollBtn = sb]

\* The top level of the script, run when a page is loaded or loaded again:
\* a new document at the top, with the saved theme or dark.
PageLoad ==
  /\ page' = [page EXCEPT
                !.loaded = TRUE,
                !.theme = LoadTheme(page.stored),
                !.toggle = IF page.toggle # Absent
                           THEN ThemeIcon(LoadTheme(page.stored)) ELSE Absent,
                !.scrollBtn = IF page.scrollBtn # Absent THEN "plain" ELSE Absent,
                !.scrollY = 0,
                !.hist = <<>>,
                !.call = "load"]
  /\ UNCHANGED <<mainVars, search, persist>>

\* toggleTheme()
ToggleTheme ==
  /\ page.loaded
  /\ LET newTheme == NewTheme(page.theme)
     IN  page' = [page EXCEPT
                    !.theme = newTheme,
                    !.stored = newTheme,
                    !.toggle = IF page.toggle # Absent
                               THEN ThemeIcon(newTheme) ELSE Absent,
                    !.hist = LastTwo(Append(page.hist, ThemeState(page))),
                    !.call = "toggleTheme"]
  /\ UNCHANGED <<mainVars, search, persist>>

\* The window is scrolled to y; the scroll listener, registered when the
\* page has the button, sets or removes its class 'visible'.
Scroll(y) ==
  /\ page.loaded
  /\ page' = [page EXCEPT
                !.scrollY = y,
                !.scrollBtn = IF page.scrollBtn # Absent
                              THEN ScrollClass(y) ELSE Absent,
                !.call = "scroll"]
  /\ UNCHANGED <<mainVars, search, persist>>

\* scrollToTop(): the window goes to the top and the scroll listener runs
\* (the positions the smooth scroll passes through are left out).
ScrollToTop ==
  /\ page.loaded
  /\ page' = [page EXCEPT
                !.scrollY = 0,
                !.scrollBtn = IF page.scrollBtn # Absent
                              THEN ScrollClass(0) ELSE Absent,
                !.call = "scrollToTop"]
  /\ UNCHANGED <<mainVars, search, persist>>

PageNext ==
  \/ PageLoad
  \/ ToggleTheme
  \/ \E y \in ScrollPositions : Scroll(y)
  \/ ScrollToTop

PageSpec == PageInit /\ [][PageNext]_vars

\* ------------------------------------------------ DebouncedSearch: actions

\* The component is mounted and its effects have run: the first effect has
\* scheduled a timer for the empty search text. sinceChange is the time
\* since search last changed (saturating).
SearchInit ==
  /\ MainInit
  /\ page = PageOff
  /\ persist = PersistOff
  /\ search = [mounted |-> TRUE, search |-> "", debouncedSearch |-> "",
               timers |-> <<[state |-> "pending", remaining |-> DEBOUNCE_MS,
                             value |-> ""]>>,
               timer |-> 1, sinceChange |-> 0, lastQuery |-> Null]

\* onChangeText={setSearch} with a new text, the render and the first
\* effect (a text equal to search causes no render).
SetSearch(text) ==
  /\ search.mounted
  /\ text # search.search
  /\ Len(search.timers) < MaxSearchTimers
  /\ search' = SearchEffect([search EXCEPT !.search = text, !.sinceChange = 0])
  /\ UNCHANGED <<mainVars, page, persist>>

\* Time passes for the timers of DebouncedSearch.
SearchAdvance(d) ==
  /\ \E h \in DOMAIN search.timers :
       search.timers[h].state = "pending" /\ search.timers[h].remaining > 0
  /\ search' = [search EXCEPT
                  !.timers = [h \in DOMAIN search.timers |->
                                IF search.timers[h].state = "pending"
                                THEN [search.timers[h] EXCEPT
                                        !.remaining = Max(0, @ - d)]
                                ELSE search.timers[h]],
                  !.sinceChange = Min(DEBOUNCE_MS, @ + d)]
  /\ UNCHANGED <<mainVars, page, persist>>

\* The runtime runs the callback of a due timer: setDebouncedSearch with
\* the value the callback closed over, and the second effect.
SearchTimerFire(h) ==
  /\ h \in DOMAIN search.timers
  /\ search.timers[h].state = "pending"
  /\ search.timers[h].remaining = 0
  /\ search' = [search EXCEPT
                  !.timers[h].state = "fired",
                  !.debouncedSearch = search.timers[h].value,
                  !.lastQuery = SearchQuery(search, search.timers[h].value)]
  /\ UNCHANGED <<mainVars, page, persist>>

\* The component is unmounted: the cleanup of the first effect runs.
SearchUnmount ==
  /\ search.mounted
  /\ search' = [SearchCleanup(search) EXCEPT !.mounted = FALSE]
  /\ UNCHANGED <<mainVars, page, persist>>

SearchNext ==
  \/ \E text \in SearchTexts : SetSearch(text)
  \/ SearchAdvance(SearchTickMs)
  \/ \E h \in 1..MaxSearchTimers : SearchTimerFire(h)
  \/ SearchUnmount

SearchSpec == SearchInit /\ [][SearchNext]_vars

\* The clock goes on while a timer is counting, and a due timer's callback
\* is run.
SearchFairSpec ==
  /\ SearchInit
  /\ [][SearchNext]_vars
  /\ WF_vars(SearchAdvance(SearchTickMs))
  /\ WF_vars(\E h \in 1..MaxSearchTimers : SearchTimerFire(h))

\* ------------------------------------- HomeScreen with persistence: actions

\* The screen has been rendered for the first time and its two effects
\* have run. tasks, isLoading are the state of the component, storage the
\* item under STORAGE_KEY, queue the calls AsyncStorage has not yet carried
\* out (it carries them out in the order of the calls), saved0 the item at
\* the start, count the ids issued so far, saves the setItem calls made.
PersistInit ==
  /\ MainInit
  /\ page = PageOff
  /\ search = SearchOff
  /\ \E item \in SavedItems :
       persist = SaveEffect(LoadEffect(
                   [tasks |-> <<>>, isLoading |-> TRUE, storage |-> item,
                    queue |-> <<>>, saved0 |-> item, count |-> 1, saves |-> 0]))

\* AsyncStorage carries out the call at the head of its queue: a setItem
\* stores its value; a getItem resolves with the item or rejects, and
\* loadTasks goes on.
StorageStep ==
  /\ persist.queue # <<>>
  /\ LET call == Head(persist.queue)
         rest == [persist EXCEPT !.queue = Tail(@)]
     IN  IF call.op = "set"
         THEN persist' = [rest EXCEPT !.storage = call.value]
         ELSE \E outcome \in GetOutcomes :
                persist' = LoadTasksDone(rest, outcome, persist.storage)
  /\ UNCHANGED <<mainVars, page, search>>

\* The handlers of the rest of the component, which is rendered once
\* isLoading is false: each calls setTasks with an updater that returns a
\* new list, and the second effect runs after the render.
PersistAdd ==
  /\ ~persist.isLoading
  /\ persist.saves < MaxSaves
  /\ Len(persist.tasks) < MaxTasks
  /\ persist.count < MaxIds
  /\ \E text \in Texts :
       /\ ~IsEmptyInput(text)
       /\ persist' = SaveEffect(
            [persist EXCEPT
               !.tasks = AddUpdater(@, Nanoid(persist.count), text),
               !.count = @ + 1])
  /\ UNCHANGED <<mainVars, page, search>>

PersistToggle(id) ==
  /\ ~persist.isLoading
  /\ persist.saves < MaxSaves
  /\ persist' = SaveEffect([persist EXCEPT !.tasks = ToggleUpdater(@, id)])
  /\ UNCHANGED <<mainVars, page, search>>

PersistDelete(id) ==
  /\ ~persist.isLoading
  /\ persist.saves < MaxSaves
  /\ persist' = SaveEffect([persist EXCEPT !.tasks = DeleteUpdater(@, id)])
  /\ UNCHANGED <<mainVars, page, search>>

PersistNext ==
  \/ StorageStep
  \/ PersistAdd
  \/ \E id \in Ids : PersistToggle(id)
  \/ \E id \in Ids : PersistDelete(id)

PersistSpec == PersistInit /\ [][PersistNext]_vars

\* ----------------------------------------------------------------- claims

Pending(tab) == {h \in DOMAIN tab : tab[h].state = "pending"}

TaskIds(list) == {list[i].id : i \in DOMAIN list}

\* The timer the ref names, when it names one.
RefTimerIs(st) ==
  /\ feedbackTimeoutRef \in DOMAIN timers
  /\ timers[feedbackTimeoutRef].state = st

\* The previous showFeedback call's timer was cancelled while pending.
Superseded ==
  /\ feedbackTimeoutRef >= 2
  /\ feedbackTimeoutRef \in DOMAIN timers
  /\ timers[feedbackTimeoutRef - 1].state = "cleared"

\* C1: once an event B has been triggered, the overlay shows B until an
\* expiry runs and nothing after it; at most one expiry runs after the
\* trigger, and it is the expiry of B's own timer, so the timer of an
\* event A that B superseded never clears B's display.
C1_LatestFeedbackWins ==
  (mounted /\ lastOp.trigger # Null) =>
    /\ feedbackType \in {lastOp.trigger, Null}
    /\ expiries <= 1
    /\ (expiries = 0 => feedbackType = lastOp.trigger)
    /\ (expiries = 1 => feedbackType = Null /\ RefTimerIs("fired"))

\* A was triggered, B of another kind superseded it within A's window, and
\* B's expiry has run.
C1_Witness ==
  /\ mounted
  /\ prevOp.kind # Null /\ lastOp.kind # Null /\ prevOp.kind # lastOp.kind
  /\ Superseded
  /\ RefTimerIs("fired")
  /\ expiries = 1
  /\ feedbackType = Null

\* C2: when the timer of the most recent trigger has run, the duration has
\* elapsed, the active feedback is none, exactly one expiry has run for
\* that trigger, and no timer is left that could dismiss a second time.
C2_ExpiresExactlyOnce ==
  (mounted /\ RefTimerIs("fired")) =>
    /\ feedbackType = Null
    /\ feedbackImageError = FALSE
    /\ expiries = 1
    /\ sinceTrigger = FEEDBACK_DURATION_MS
    /\ Pending(timers) = {}

\* The window of a trigger elapsed with no further trigger and its expiry ran.
C2_Witness ==
  /\ mounted
  /\ lastOp.kind # Null
  /\ RefTimerIs("fired")
  /\ sinceTrigger = FEEDBACK_DURATION_MS
  /\ feedbackType = Null

\* C3: in every state reached by handler calls, passage of time and timer
\* firings (the component mounted), at most one timer is pending, it is the
\* one the ref names, and a timer runs its callback only while it is the
\* one the ref names (the timer scheduled by the most recent trigger).
C3_OnlyLatestTimerArmed ==
  /\ [](mounted =>
          /\ Cardinality(Pending(timers)) <= 1
          /\ Pending(timers) \subseteq {feedbackTimeoutRef})
  /\ [][mounted =>
          \A h \in DOMAIN timers :
            (timers[h].state = "pending" /\ timers'[h].state = "fired")
               => h = feedbackTimeoutRef]_vars

\* Three timers were scheduled; the first ran, the second was cancelled by
\* the third trigger, the third is pending.
C3_Witness ==
  /\ mounted
  /\ Len(timers) >= 3
  /\ timers[1].state = "fired"
  /\ timers[2].state = "cleared"
  /\ timers[3].state = "pending"
  /\ feedbackTimeoutRef = 3

\* C4: while less than the display duration has passed since the most
\* recent trigger, its kind is showing and its timer is pending with
\* exactly the rest of the duration left; the feedback is not cleared
\* before the full duration has passed since that trigger.
C4_WindowRestartsOnTrigger ==
  (mounted /\ lastOp.trigger # Null) =>
    /\ (sinceTrigger < FEEDBACK_DURATION_MS =>
          /\ feedbackType = lastOp.trigger
          /\ RefTimerIs("pending"))
    /\ (RefTimerIs("pending") =>
          timers[feedbackTimeoutRef].remaining = FEEDBACK_DURATION_MS - sinceTrigger)
    /\ (feedbackType = Null => sinceTrigger = FEEDBACK_DURATION_MS)

\* The same kind was triggered again within the window of the first, and
\* part of the new window has passed.
C4_Witness ==
  /\ mounted
  /\ lastOp.kind # Null /\ prevOp.kind = lastOp.kind
  /\ Superseded
  /\ sinceTrigger > 0 /\ sinceTrigger < FEEDBACK_DURATION_MS
  /\ feedbackType = lastOp.kind

\* C5: once the component is unmounted no expiry timer is pending.
C5_TeardownCancelsTimer == ~mounted => Pending(timers) = {}

\* The kind an operation signals, from the call and the list it found.
Signal(call) ==
  CASE call.op = "add" -> "added"
    [] call.op = "delete" -> "deleted"
    [] call.op = "toggle" ->
         IF \E i \in DOMAIN call.pre :
              call.pre[i].id = call.arg /\ ~call.pre[i].completed
         THEN "completed" ELSE "uncompleted"
    [] OTHER -> Null

\* C6: after an operation that signals, the active feedback is the kind of
\* that operation, the most recently invoked one, until its expiry runs.
C6_LatestOperationSignals ==
  (mounted /\ lastOp.kind # Null) =>
    /\ lastOp.kind = Signal(lastOp)
    /\ feedbackType = IF expiries = 0 THEN Signal(lastOp) ELSE Null

\* A toggle, whose trigger is issued inside the updater, follows another
\* signalling operation of another kind and is the one showing.
C6_Witness ==
  /\ mounted
  /\ lastOp.op = "toggle" /\ prevOp.op \in {"add", "delete"}
  /\ Superseded
  /\ expiries = 0
  /\ feedbackType = lastOp.kind

\* C7: add with a text that is not empty after trimming appends one task
\* at the end, not completed, with an id no existing task has, leaves the
\* tasks before it as they were, and signals added.
C7_AddAppends ==
  (lastOp.op = "add" /\ Trim(lastOp.arg) # <<>>) =>
    /\ Len(tasks) = Len(lastOp.pre) + 1
    /\ SubSeq(tasks, 1, Len(lastOp.pre)) = lastOp.pre
    /\ tasks[Len(tasks)].completed = FALSE
    /\ tasks[Len(tasks)].id \notin TaskIds(lastOp.pre)
    /\ lastOp.kind = "added"
    /\ (mounted /\ expiries = 0 => feedbackType = "added")

\* A padded text was added to a list that was not empty.
C7_Witness ==
  /\ lastOp.op = "add"
  /\ lastOp.arg # Trim(lastOp.arg)
  /\ lastOp.pre # <<>>
  /\ Len(tasks) = 2
  /\ feedbackType = "added"

\* A step that is a call of add with an empty or whitespace-only text.
RejectedAddStep ==
  /\ <<lastOp, prevOp>>' # <<lastOp, prevOp>>
  /\ lastOp'.op = "add"
  /\ Trim(lastOp'.arg) = <<>>

\* C8: add with an empty or whitespace-only text changes neither the task
\* list nor the feedback state nor any timer, and signals nothing.
C8_BlankAddIgnored ==
  /\ []((lastOp.op = "add" /\ Trim(lastOp.arg) = <<>>) =>
          (tasks = lastOp.pre /\ lastOp.kind = Null))
  /\ [][RejectedAddStep =>
          UNCHANGED <<tasks, feedbackType, feedbackImageError,
                      feedbackTimeoutRef, timers, sinceTrigger, expiries>>]_vars

\* A whitespace-only text was submitted while a feedback was showing.
C8_Witness ==
  /\ lastOp.op = "add"
  /\ lastOp.arg # <<>> /\ Trim(lastOp.arg) = <<>>
  /\ lastOp.pre # <<>>
  /\ feedbackType # Null
  /\ RefTimerIs("pending")

\* C9: toggleComplete of an existing id flips the flag of the one task with
\* that id, leaves its id, text and position and every other task as they
\* were, and signals completed or uncompleted as the flag has become.
C9_ToggleFlipsOne ==
  (lastOp.op = "toggle" /\ lastOp.arg \in TaskIds(lastOp.pre)) =>
    /\ Cardinality({i \in DOMAIN lastOp.pre : lastOp.pre[i].id = lastOp.arg}) = 1
    /\ DOMAIN tasks = DOMAIN lastOp.pre
    /\ \A i \in DOMAIN lastOp.pre :
         IF lastOp.pre[i].id = lastOp.arg
         THEN /\ tasks[i].id = lastOp.pre[i].id
              /\ tasks[i].text = lastOp.pre[i].text
              /\ tasks[i].completed = ~lastOp.pre[i].completed
              /\ lastOp.kind = IF tasks[i].completed THEN "completed"
                               ELSE "uncompleted"
         ELSE tasks[i] = lastOp.pre[i]

\* A completed task was toggled back in a list of two tasks.
C9_Witness ==
  /\ lastOp.op = "toggle"
  /\ Len(lastOp.pre) = 2
  /\ \E i \in DOMAIN lastOp.pre :
       lastOp.pre[i].id = lastOp.arg /\ lastOp.pre[i].completed
  /\ lastOp.kind = "uncompleted"

\* C10: two successive toggleComplete calls on the same existing id leave
\* the task list as it was before the first, and signal completed then
\* uncompleted if the task was not completed, uncompleted then completed
\* if it was.
C10_ToggleTwiceRestores ==
  (/\ lastOp.op = "toggle" /\ prevOp.op = "toggle"
   /\ lastOp.arg = prevOp.arg
   /\ prevOp.arg \in TaskIds(prevOp.pre)) =>
    /\ tasks = prevOp.pre
    /\ \A i \in DOMAIN prevOp.pre :
         prevOp.pre[i].id = prevOp.arg =>
           <<prevOp.kind, lastOp.kind>> =
             IF prevOp.pre[i].completed
             THEN <<"uncompleted", "completed">>
             ELSE <<"completed", "uncompleted">>

\* A completed task was toggled twice in succession.
C10_Witness ==
  /\ lastOp.op = "toggle" /\ prevOp.op = "toggle"
  /\ lastOp.arg = prevOp.arg
  /\ \E i \in DOMAIN prevOp.pre :
       prevOp.pre[i].id = prevOp.arg /\ prevOp.pre[i].completed
  /\ <<prevOp.kind, lastOp.kind>> = <<"uncompleted", "completed">>

C12_ToggleMissingIsNoOp ==
  (lastOp.op = "toggle" /\ lastOp.arg \notin TaskIds(lastOp.pre)) =>
    /\ tasks = lastOp.pre
    /\ lastOp.kind = Null

\* C13: delete of an id no task has leaves the task list as it was and
\* signals deleted all the same; every delete call signals deleted.
C13_DeleteMissingStillSignals ==
  /\ (lastOp.op = "delete" /\ lastOp.arg \notin TaskIds(lastOp.pre)) =>
       tasks = lastOp.pre
  /\ (mounted /\ lastOp.op = "delete") =>
       /\ lastOp.kind = "deleted"
       /\ (expiries = 0 => feedbackType = "deleted" /\ RefTimerIs("pending"))

\* An id that a list of one task does not hold was deleted, and deleted is
\* showing.
C13_Witness ==
  /\ mounted
  /\ lastOp.op = "delete"
  /\ Len(lastOp.pre) = 1
  /\ lastOp.arg \notin TaskIds(lastOp.pre)
  /\ tasks = lastOp.pre
  /\ feedbackType = "deleted"

\* The call is an add of a text that is not blank to the empty list.
FirstAdd(call) ==
  call.op = "add" /\ call.pre = <<>> /\ Trim(call.arg) # <<>>

\* The call is a toggle of the only task of the list, not yet completed.
ToggleOfOnly(call) ==
  /\ call.op = "toggle"
  /\ Len(call.pre) = 1
  /\ call.pre[1].id = call.arg
  /\ ~call.pre[1].completed

\* C14: right after an operation (no expiry since) its kind is the active
\* feedback; from the empty list, add gives one task with the trimmed text,
\* not completed, and added; toggleComplete of its id then gives the same
\* task completed, and completed; delete of its id then gives the empty
\* list, and deleted.
C14_AddToggleDelete ==
  /\ (mounted /\ lastOp.kind # Null /\ expiries = 0) =>
       feedbackType = lastOp.kind
  /\ FirstAdd(lastOp) =>
       /\ Len(tasks) = 1
       /\ tasks[1].text = Trim(lastOp.arg)
       /\ tasks[1].completed = FALSE
       /\ lastOp.kind = "added"
  /\ (ToggleOfOnly(lastOp) /\ FirstAdd(prevOp)) =>
       /\ tasks = <<[lastOp.pre[1] EXCEPT !.completed = TRUE]>>
       /\ lastOp.kind = "completed"
  /\ (/\ lastOp.op = "delete"
      /\ ToggleOfOnly(prevOp)
      /\ lastOp.arg = prevOp.arg
      /\ Len(lastOp.pre) = 1) =>
       /\ tasks = <<>>
       /\ lastOp.kind = "deleted"

\* The scenario has run to its end: one id issued, three triggers, the list
\* empty again and deleted showing.
C14_Witness ==
  /\ mounted
  /\ nanoidCount = 1
  /\ Len(timers) = 3
  /\ lastOp.op = "delete"
  /\ ToggleOfOnly(prevOp)
  /\ lastOp.arg = prevOp.arg
  /\ lastOp.pre = <<[prevOp.pre[1] EXCEPT !.completed = TRUE]>>
  /\ tasks = <<>>
  /\ feedbackType = "deleted"

\* A step in which showFeedback is called: a timer is scheduled.
TriggerStep == Len(timers') > Len(timers)

\* A step in which a timer runs its callback.
ExpiryStep ==
  \E h \in DOMAIN timers :
    timers[h].state = "pending" /\ timers'[h].state = "fired"

\* C15: the fallback flag is false right after every trigger and right
\* after every expiry; it is true only while a feedback is showing; the
\* step that makes it true changes neither the active kind nor the ref nor
\* any timer nor the task list, and is no handler call.
C15_ImageErrorFlag ==
  /\ [](feedbackImageError => (mounted /\ feedbackType # Null))
  /\ [][/\ TriggerStep => ~feedbackImageError'
        /\ (ExpiryStep /\ mounted) => ~feedbackImageError'
        /\ (~feedbackImageError /\ feedbackImageError') =>
             UNCHANGED <<feedbackType, feedbackTimeoutRef, timers, tasks,
                         lastOp, prevOp>>]_vars

\* A failed render was reported for a feedback that superseded another; its
\* kind is showing and its timer is pending.
C15_Witness ==
  /\ feedbackImageError
  /\ Superseded
  /\ feedbackType = lastOp.trigger
  /\ RefTimerIs("pending")

\* C16: while the component is mounted, a step that changes the task list
\* is a handler call that also applies its trigger (kind set, new timer
\* pending and named by the ref); a step that applies a trigger is a
\* handler call on the list as it was, and leaves the list unchanged only
\* for a toggle or delete of an id no task has; a step in which a timer
\* runs is no handler call and changes no task.
C16_OperationsAtomic ==
  [][mounted' =>
       /\ (tasks' # tasks) => TriggerStep
       /\ TriggerStep =>
            /\ lastOp'.kind # Null
            /\ lastOp'.pre = tasks
            /\ prevOp' = lastOp
            /\ feedbackType' = lastOp'.kind
            /\ feedbackTimeoutRef' = Len(timers')
            /\ timers'[Len(timers')].state = "pending"
            /\ (tasks' = tasks) <=>
                 (/\ lastOp'.op \in {"toggle", "delete"}
                  /\ lastOp'.arg \notin TaskIds(tasks))
       /\ ExpiryStep =>
            (~TriggerStep /\ UNCHANGED <<tasks, lastOp, prevOp>>)]_vars

\* A delete removed a task and its feedback is showing with its timer
\* pending.
C16_Witness ==
  /\ mounted
  /\ lastOp.op = "delete"
  /\ tasks # lastOp.pre
  /\ expiries = 0
  /\ feedbackType = "deleted"
  /\ RefTimerIs("pending")

\* C17: the controller of a mounted component is idle (no active kind, no
\* timer pending) or showing (one of the four kinds active, one timer
\* pending); so a kind is active iff a timer is pending.
C17_IdleOrShowing ==
  mounted =>
    \/ (feedbackType = Null /\ Pending(timers) = {})
    \/ (feedbackType \in FeedbackType /\ Cardinality(Pending(timers)) = 1)

\* Showing again after an expiry brought the controller back to idle.
C17_Witness ==
  /\ mounted
  /\ Len(timers) = 2
  /\ timers[1].state = "fired"
  /\ feedbackType \in FeedbackType
  /\ Pending(timers) = {2}

\* C18: with the clock running and due timers run, a feedback that is
\* showing is in the end cleared by its expiry (or the component is
\* unmounted): if no further trigger comes, the active feedback becomes
\* none. A run has at most MaxTimers showFeedback calls, so in every run a
\* last trigger comes, and a trigger leaves a feedback showing: from every
\* state with a feedback showing, a state with none follows.
C18_FeedbackEventuallyEnds ==
  (mounted /\ feedbackType # Null) ~> (feedbackType = Null \/ ~mounted)

\* A feedback was showing with no trigger after it, and its expiry has
\* cleared it.
C18_Witness ==
  /\ mounted
  /\ Len(timers) = MaxTimers
  /\ RefTimerIs("fired")
  /\ feedbackType = Null

\* C19 as stated: the ref is null exactly when no timer is pending.
C19_RefNullIffNoneArmed ==
  mounted => ((feedbackTimeoutRef = 0) <=> (Pending(timers) = {}))

\* C19 as amended: the ref is null only until the first trigger; from then
\* on it names the timer the most recent trigger scheduled, which is
\* pending or has run; a pending timer is always the one the ref names;
\* once that timer has run the ref still names it and no timer is pending.
C19_RefNamesLatestTimer ==
  mounted =>
    /\ (feedbackTimeoutRef = 0) <=> (timers = <<>>)
    /\ feedbackTimeoutRef # 0 =>
         /\ feedbackTimeoutRef = Len(timers)
         /\ timers[feedbackTimeoutRef].state \in {"pending", "fired"}
    /\ Pending(timers) \subseteq {feedbackTimeoutRef}
    /\ RefTimerIs("fired") => Pending(timers) = {}

\* The timer of the second trigger has run: the ref still names it and
\* nothing is pending.
C19_Witness ==
  /\ mounted
  /\ feedbackTimeoutRef = 2
  /\ RefTimerIs("fired")
  /\ Pending(timers) = {}

\* The ids of a list, in order.
IdSeq(list) == [i \in DOMAIN list |-> list[i].id]

\* seq without its i-th element.
Without(seq, i) == SubSeq(seq, 1, i - 1) \o SubSeq(seq, i + 1, Len(seq))

\* C20: the ids of the tasks of the list are pairwise distinct, and a step
\* of the mounted component keeps the ids of the tasks in place, or appends
\* one id no task has, or takes one id out.
C20_IdsDistinctAndStable ==
  /\ [](\A i, j \in DOMAIN tasks : i # j => tasks[i].id # tasks[j].id)
  /\ [][mounted' =>
          \/ IdSeq(tasks') = IdSeq(tasks)
          \/ \E new \in Ids \ TaskIds(tasks) :
               IdSeq(tasks') = Append(IdSeq(tasks), new)
          \/ \E i \in DOMAIN tasks :
               IdSeq(tasks') = Without(IdSeq(tasks), i)]_vars

\* Two tasks after two adds, a delete and a third add.
C20_Witness ==
  /\ Len(tasks) = 2
  /\ nanoidCount = 3
  /\ tasks[1].id # tasks[2].id
  /\ lastOp.op = "add"
  /\ prevOp.op = "delete"

\* The text of the task with the id in the list.
TextOf(list, id) == list[Find(list, id)].text

\* C21: the text of every task is not empty and neither starts nor ends
\* with whitespace; the task an add creates has the trimmed input as its
\* text; no step of the mounted component changes the text of a task that
\* stays in the list.
C21_TextTrimmedAndKept ==
  /\ [](\A i \in DOMAIN tasks :
          /\ tasks[i].text # <<>>
          /\ tasks[i].text[1] \notin Whitespace
          /\ tasks[i].text[Len(tasks[i].text)] \notin Whitespace)
  /\ []((lastOp.op = "add" /\ lastOp.kind = "added") =>
          tasks[Len(tasks)].text = Trim(lastOp.arg))
  /\ [][mounted' =>
          \A id \in TaskIds(tasks) \cap TaskIds(tasks') :
            TextOf(tasks', id) = TextOf(tasks, id)]_vars

\* A padded text was added as the second task and that task was toggled:
\* both tasks have the trimmed text.
C21_Witness ==
  /\ lastOp.op = "toggle" /\ prevOp.op = "add"
  /\ prevOp.arg # Trim(prevOp.arg)
  /\ Len(tasks) = 2
  /\ lastOp.arg = tasks[2].id
  /\ tasks[2].completed
  /\ tasks[2].text = Trim(prevOp.arg)
  /\ tasks[1].text = tasks[2].text

\* What is seen of a controller state: the active kind, the fallback flag,
\* the number of armed timers and the time each has left.
ControllerView(fb) ==
  [type    |-> fb.type,
   err     |-> fb.err,
   armed   |-> Cardinality(Pending(fb.timers)),
   windows |-> {fb.timers[h].remaining : h \in Pending(fb.timers)}]

\* A step in which showFeedback is called twice: two timers are scheduled.
DoubleTriggerStep == Len(timers') = Len(timers) + 2

\* C22: in every state of the mounted component and for every kind, a
\* second showFeedback call right after the first leaves the controller as
\* the first left it: the kind active, the fallback flag false, one timer
\* armed with the full duration left; and a step in which the toggle
\* updater is invoked twice ends in the state one invocation would give.
C22_TriggerIdempotent ==
  /\ [](mounted =>
          \A kind \in FeedbackType :
            LET once  == ShowFeedback(FeedbackState, kind)
                twice == ShowFeedback(once, kind)
            IN  /\ ControllerView(twice) = ControllerView(once)
                /\ ControllerView(twice) =
                     [type |-> kind, err |-> FALSE, armed |-> 1,
                      windows |-> {FEEDBACK_DURATION_MS}])
  /\ [][DoubleTriggerStep =>
          /\ lastOp'.op = "toggle"
          /\ ControllerView(FeedbackState') =
               ControllerView(ShowFeedback(FeedbackState, lastOp'.kind))
          /\ tasks' = ToggleUpdater(tasks, lastOp'.arg)]_vars

\* The only handler call so far was a toggle and two timers exist: its
\* updater ran twice, the second call cancelled the timer of the first and
\* armed its own with the full duration.
C22_Witness ==
  /\ mounted
  /\ lastOp.op = "toggle" /\ prevOp = NoOp
  /\ Len(timers) = 2
  /\ timers[1].state = "cleared"
  /\ timers[2] = [state |-> "pending", remaining |-> FEEDBACK_DURATION_MS]
  /\ feedbackTimeoutRef = 2
  /\ feedbackType = lastOp.kind
  /\ ~feedbackImageError

\* The controller of a component that has just been mounted.
InitialFeedback ==
  [type |-> Null, err |-> FALSE, ref |-> 0, timers |-> <<>>]

\* C23: when the timer the ref names has run, clearTimeout with the ref
\* changes no timer, and showFeedback gives what it gives from the initial
\* state: the kind active, the flag false, one timer armed with the full
\* duration; a trigger step from such a state leaves every earlier timer
\* as it was.
C23_TriggerAfterExpiry ==
  /\ []((mounted /\ RefTimerIs("fired")) =>
          /\ ClearTimeout(timers, feedbackTimeoutRef) = timers
          /\ \A kind \in FeedbackType :
               /\ ControllerView(ShowFeedback(FeedbackState, kind)) =
                    ControllerView(ShowFeedback(InitialFeedback, kind))
               /\ ControllerView(ShowFeedback(FeedbackState, kind)) =
                    [type |-> kind, err |-> FALSE, armed |-> 1,
                     windows |-> {FEEDBACK_DURATION_MS}])
  /\ [][(mounted /\ RefTimerIs("fired") /\ TriggerStep) =>
          /\ SubSeq(timers', 1, Len(timers)) = timers
          /\ ControllerView(FeedbackState') =
               ControllerView(ShowFeedback(InitialFeedback, lastOp'.kind))]_vars

\* A trigger has just come after the expiry of the one before it: the
\* earlier timer is still recorded as run, the new one is armed in full.
C23_Witness ==
  /\ mounted
  /\ Len(timers) >= 2
  /\ timers[Len(timers) - 1].state = "fired"
  /\ timers[Len(timers)] = [state |-> "pending", remaining |-> FEEDBACK_DURATION_MS]
  /\ feedbackTimeoutRef = Len(timers)
  /\ lastOp.kind # Null
  /\ feedbackType = lastOp.kind
  /\ ~feedbackImageError

\* The list differs from prev at most in the completed flag of the tasks
\* with the id.
SameButFlagOf(list, prev, id) ==
  /\ DOMAIN list = DOMAIN prev
  /\ \A i \in DOMAIN prev :
       /\ list[i].id = prev[i].id
       /\ list[i].text = prev[i].text
       /\ prev[i].id # id => list[i].completed = prev[i].completed

\* C24: a step in which a timer runs changes, of the component, the active
\* kind (to none) and the fallback flag (to false) and nothing else: the
\* task list, the input text, the ref and the call log stay, and of the
\* timers only the one that ran changes; a step with a trigger changes the
\* task list only as its operation does (add appends one task, toggle
\* changes the flag of the id, delete takes the id out), so with an id no
\* task has the trigger leaves the list as it was.
C24_ExpiryAndTriggerFrames ==
  /\ [][ExpiryStep =>
          /\ UNCHANGED <<tasks, inputText, nanoidCount, feedbackTimeoutRef,
                         mounted, lastOp, prevOp>>
          /\ mounted => (feedbackType' = Null /\ feedbackImageError' = FALSE)
          /\ Len(timers') = Len(timers)
          /\ \A h \in DOMAIN timers :
               timers'[h] # timers[h] =>
                 (timers[h].state = "pending" /\ timers'[h].state = "fired")]_vars
  /\ [][(TriggerStep /\ mounted') =>
          CASE lastOp'.op = "add" ->
                 /\ Len(tasks') = Len(tasks) + 1
                 /\ SubSeq(tasks', 1, Len(tasks)) = tasks
            [] lastOp'.op = "toggle" ->
                 /\ SameButFlagOf(tasks', tasks, lastOp'.arg)
                 /\ lastOp'.arg \notin TaskIds(tasks) => tasks' = tasks
            [] lastOp'.op = "delete" ->
                 /\ tasks' = SelectSeq(tasks, LAMBDA t : t.id # lastOp'.arg)
                 /\ lastOp'.arg \notin TaskIds(tasks) => tasks' = tasks
            [] OTHER -> FALSE]_vars

\* An expiry has cleared the feedback of a delete of an id no task has,
\* with two tasks in the list, one completed, and a text in the input field.
C24_Witness ==
  /\ mounted
  /\ RefTimerIs("fired")
  /\ feedbackType = Null
  /\ expiries = 1
  /\ lastOp.op = "delete" /\ lastOp.arg \notin TaskIds(lastOp.pre)
  /\ Len(tasks) = 2
  /\ tasks = lastOp.pre
  /\ tasks[1].completed
  /\ inputText # <<>>

\* A step that is a handler call of the mounted component: the call log
\* moves on or a trigger is applied.
HandlerStep ==
  /\ mounted'
  /\ (<<lastOp, prevOp>>' # <<lastOp, prevOp>> \/ TriggerStep)

\* C25: a call of add takes the input text as its argument; when that text
\* is not blank the input field is empty after the call, when it is blank
\* the input field is as it was; a call of toggleComplete or delete leaves
\* the input field as it was.
C25_InputTextFrames ==
  [][HandlerStep =>
       CASE lastOp'.op = "add" ->
              /\ lastOp'.arg = inputText
              /\ inputText' = IF Trim(inputText) # <<>> THEN <<>> ELSE inputText
         [] lastOp'.op \in {"toggle", "delete"} -> inputText' = inputText
         [] OTHER -> FALSE]_vars

\* After an add that succeeded, a whitespace-only text was typed and an add
\* was rejected: the whitespace is still in the input field.
C25_Witness ==
  /\ mounted
  /\ prevOp.op = "add" /\ prevOp.kind = "added"
  /\ lastOp.op = "add" /\ lastOp.kind = Null
  /\ lastOp.arg # <<>>
  /\ inputText = lastOp.arg
  /\ Len(tasks) = 1

\* The theme state before the last toggleTheme call, and before the one
\* before it.
BeforeLastToggle == page.hist[Len(page.hist)]
BeforeTwoToggles == page.hist[1]

\* C26 as stated: toggleTheme gives dark from light and light from dark,
\* and two successive calls that start from light or from dark bring back
\* the theme, the stored value and the icon of the button.
C26_TwoTogglesRestoreAll ==
  /\ page.hist # <<>> =>
       /\ BeforeLastToggle.theme = "light" => page.theme = "dark"
       /\ BeforeLastToggle.theme = "dark" => page.theme = "light"
  /\ (Len(page.hist) = 2 /\ BeforeTwoToggles.theme \in {"light", "dark"}) =>
       ThemeState(page) = BeforeTwoToggles

\* C26 as amended: toggleTheme gives dark from light and light from dark;
\* two successive calls that start from light or from dark bring back the
\* theme and the icon of the button, and leave the theme as the stored
\* value, which is the stored value of the start when that was the theme.
C26_TwoTogglesRestoreTheme ==
  /\ page.hist # <<>> =>
       /\ BeforeLastToggle.theme = "light" => page.theme = "dark"
       /\ BeforeLastToggle.theme = "dark" => page.theme = "light"
  /\ (Len(page.hist) = 2 /\ BeforeTwoToggles.theme \in {"light", "dark"}) =>
       /\ page.theme = BeforeTwoToggles.theme
       /\ page.toggle = BeforeTwoToggles.toggle
       /\ page.stored = page.theme
       /\ BeforeTwoToggles.stored = BeforeTwoToggles.theme =>
            ThemeState(page) = BeforeTwoToggles

\* Two toggles after the load of a page with nothing saved: the theme is
\* dark and the icon the sun as after the load, and dark is now stored.
C26_Witness ==
  /\ Len(page.hist) = 2
  /\ BeforeTwoToggles = [theme |-> "dark", stored |-> Null, toggle |-> Sun]
  /\ BeforeLastToggle = [theme |-> "light", stored |-> "light", toggle |-> Moon]
  /\ ThemeState(page) = [theme |-> "dark", stored |-> "dark", toggle |-> Sun]

\* C27: once toggleTheme has been called on a page, the stored value is
\* the data-theme attribute, and the button, when the page has one, shows
\* the moon if the theme is light and the sun if it is not.
C27_ThemeStoredIconAgree ==
  page.hist # <<>> =>
    /\ page.stored = page.theme
    /\ page.toggle # Absent =>
         /\ (page.toggle = Moon) <=> (page.theme = "light")
         /\ (page.toggle = Sun) <=> (page.theme # "light")

\* A page that had a value saved that is no theme was toggled once, then
\* scrolled: light is set and stored and the button shows the moon.
C27_Witness ==
  /\ Len(page.hist) = 1
  /\ BeforeLastToggle.stored = "auto"
  /\ page.call = "scroll"
  /\ ThemeState(page) = [theme |-> "light", stored |-> "light", toggle |-> Moon]

\* C28 as stated: after the load the theme is the saved value, or dark
\* when nothing is saved; toggleTheme gives dark from light and light from
\* any other value, so after a toggle the theme is light or dark.
C28_LoadSavedOrDark ==
  /\ (page.loaded /\ page.hist = <<>>) =>
       page.theme = IF page.stored = Null THEN "dark" ELSE page.stored
  /\ page.hist # <<>> =>
       /\ page.theme = IF BeforeLastToggle.theme = "light" THEN "dark" ELSE "light"
       /\ page.theme \in {"light", "dark"}

\* C28 as amended: after the load the theme is the saved value when that
\* is a string that is not empty, and dark when nothing or the empty
\* string is saved; toggleTheme gives dark from light and light from any
\* other value, so after a toggle the theme is light or dark.
C28_LoadSavedUnlessEmpty ==
  /\ (page.loaded /\ page.hist = <<>>) =>
       page.theme = IF page.stored \in {Null, ""} THEN "dark" ELSE page.stored
  /\ page.hist # <<>> =>
       /\ page.theme = IF BeforeLastToggle.theme = "light" THEN "dark" ELSE "light"
       /\ page.theme \in {"light", "dark"}

\* The first toggle after the load of a value that is no theme gave light.
C28_Witness ==
  /\ page.call = "toggleTheme"
  /\ Len(page.hist) = 1
  /\ BeforeLastToggle.theme = "auto"
  /\ BeforeLastToggle.stored = "auto"
  /\ page.theme = "light"

\* A step in which search changes, and one in which a timer of
\* DebouncedSearch runs its callback.
SearchChangeStep == search'.search # search.search

SearchExpiryStep ==
  \E h \in DOMAIN search.timers :
    search.timers[h].state = "pending" /\ search'.timers[h].state = "fired"

\* C29: while DebouncedSearch is mounted at most one timer is pending, the
\* one of the last change of search, with what is left of 300 ms since that
\* change; a change of search leaves no earlier timer pending, and a
\* cancelled timer never runs; debouncedSearch changes only when a timer
\* runs, and then to the value search holds and has held for 300 ms; and
\* with the clock running and due timers run, debouncedSearch comes to
\* equal search unless search changes again or the component is unmounted.
C29_DebouncedSearch ==
  /\ [](search.mounted =>
          \/ /\ Pending(search.timers) = {search.timer}
             /\ search.timers[search.timer].value = search.search
             /\ search.timers[search.timer].remaining =
                  DEBOUNCE_MS - search.sinceChange
          \/ /\ Pending(search.timers) = {}
             /\ search.debouncedSearch = search.search)
  /\ [][/\ SearchChangeStep =>
             /\ \A h \in Pending(search.timers) : search'.timers[h].state = "cleared"
             /\ UNCHANGED search.debouncedSearch
        /\ \A h \in DOMAIN search.timers :
             search.timers[h].state = "cleared" => search'.timers[h].state = "cleared"
        /\ search'.debouncedSearch # search.debouncedSearch => SearchExpiryStep
        /\ SearchExpiryStep =>
             /\ search'.debouncedSearch = search.search
             /\ search.sinceChange = DEBOUNCE_MS
             /\ UNCHANGED search.search]_vars
  /\ \A v \in SearchTexts :
       (search.mounted /\ search.search = v)
         ~> (search.debouncedSearch = v \/ search.search # v \/ ~search.mounted)

\* "c" and "ca" were typed within 300 ms of the next change and never
\* published; "cat" was held for 300 ms and is published and queried.
C29_Witness ==
  /\ search.mounted
  /\ Len(search.timers) = 4
  /\ \A h \in 1..3 : search.timers[h].state = "cleared"
  /\ search.timers[2].value = "c" /\ search.timers[3].value = "ca"
  /\ search.timers[4] = [state |-> "fired", remaining |-> 0, value |-> "cat"]
  /\ search.debouncedSearch = "cat"
  /\ search.lastQuery = "cat"

\* The setItem calls AsyncStorage has not yet carried out.
SetsQueued(p) == SelectSeq(p.queue, LAMBDA call : call.op = "set")

\* C30: while isLoading is true no setItem call has been made and storage
\* holds what it held at the start; a step in which setItem is called ends
\* with isLoading false; once isLoading is false, a step that changes the
\* task list calls setItem with the new list; and when every call has been
\* carried out, storage holds the task list.
C30_NoSaveWhileLoading ==
  /\ [](persist.isLoading =>
          /\ persist.saves = 0
          /\ SetsQueued(persist) = <<>>
          /\ persist.storage = persist.saved0
          /\ persist.tasks = <<>>)
  /\ []((~persist.isLoading /\ persist.queue = <<>>) =>
          persist.storage = Stringify(persist.tasks))
  /\ [][/\ persist'.saves # persist.saves => ~persist'.isLoading
        /\ persist'.storage # persist.storage => ~persist.isLoading
        /\ (~persist.isLoading /\ persist'.tasks # persist.tasks) =>
             /\ persist'.saves = persist.saves + 1
             /\ persist'.queue =
                  Append(persist.queue,
                         [op |-> "set", value |-> Stringify(persist'.tasks)])]_vars

\* A saved task was loaded, a task was added to it, and both setItem calls
\* have been carried out: storage holds the two tasks.
C30_Witness ==
  /\ ~persist.isLoading
  /\ persist.saved0 = Stringify(<<SavedTask>>)
  /\ persist.saves = 2
  /\ persist.queue = <<>>
  /\ Len(persist.tasks) = 2
  /\ persist.tasks[1] = SavedTask
  /\ persist.storage = Stringify(persist.tasks)

====
